---- MODULE Spec2Model ----
(***************************************************************************)
(* Model of the HR chatbot workflow of src/chatbot.py.                     *)
(*                                                                         *)
(* Texts are sequences of symbols.  A symbol is either a character-like    *)
(* unit (a space, a quote, a code fence, a word of a user message) or a    *)
(* fixed piece of template text.  The string operations of the code        *)
(* (strip, replace, re.sub, lower, "in", join, f-strings) are modelled on  *)
(* these sequences.                                                        *)
(***************************************************************************)
EXTENDS Integers, Sequences, FiniteSets, TLC

\* ---------------------------------------------------------------- bounds
MaxMsgLen == 2
MaxPolicies == 2
MaxRows == 2
MaxCols == 2

\* ------------------------------------------------------- string helpers
IsSpace(c) == c \in {" ", "\n"}

RECURSIVE LStrip(_)
LStrip(s) == IF s # <<>> /\ IsSpace(Head(s)) THEN LStrip(Tail(s)) ELSE s

RECURSIVE RStrip(_)
RStrip(s) == IF s # <<>> /\ IsSpace(s[Len(s)])
             THEN RStrip(SubSeq(s, 1, Len(s) - 1)) ELSE s

\* str.strip()
strip(s) == RStrip(LStrip(s))

\* str.replace(c, "") for every c in cs, and re.sub(alternatives, "", s)
RemoveAll(s, cs) == SelectSeq(s, LAMBDA c : c \notin cs)

\* str.replace(tok, rep)
RECURSIVE Replace(_, _, _)
Replace(s, tok, rep) ==
    IF s = <<>> THEN <<>>
    ELSE (IF Head(s) = tok THEN rep ELSE <<Head(s)>>) \o Replace(Tail(s), tok, rep)

LowerChar(c) ==
    CASE c = "LEAVE" -> "leave"
      [] c = "Leave" -> "leave"
      [] c = "Everyone" -> "everyone"
      [] c = "HR_Policy" -> "hr_policy"
      [] OTHER -> c

\* str.lower()
lower(s) == [i \in 1..Len(s) |-> LowerChar(s[i])]

\* sub in s
Contains(sub, s) ==
    \E i \in 0..(Len(s) - Len(sub)) : SubSeq(s, i + 1, i + Len(sub)) = sub

\* sep.join(parts)
RECURSIVE Join(_, _)
Join(parts, sep) ==
    IF parts = <<>> THEN <<>>
    ELSE IF Len(parts) = 1 THEN parts[1]
    ELSE parts[1] \o sep \o Join(Tail(parts), sep)

\* Python values that cross the boundary of the module (arguments of
\* chatbot, cells of a result set).
PyNone == [t |-> "none", v |-> <<>>]
PyStr(s) == [t |-> "str", v |-> s]
PyInt(digits) == [t |-> "int", v |-> digits]

\* bool(x)
Truthy(x) ==
    CASE x.t = "none" -> FALSE
      [] x.t = "str" -> x.v # <<>>
      [] x.t = "int" -> x.v # <<"0">>

\* str(x)
str(x) == IF x.t = "none" THEN <<"None">> ELSE x.v

\* ------------------------------------------------------ fixed responses
InvalidInput == <<"Invalid input. Please provide a valid message.">>
InternalError == <<"An internal error occurred. Please try again.">>
SchemaUnavailable == <<"Database schema unavailable.">>
SqlGenerationFailed == <<"Failed to generate SQL query.">>
NoSqlQuery == <<"No SQL query to execute.">>
DatabaseQueryFailed == <<"Database query failed.">>
NoResultsFound == <<"No results found.">>
PolicyNotFound == <<"Policy not found.">>
Apology == <<"I'm sorry, I couldn't process your request.">>
General == <<"general">>

\* ------------------------------------------------------ format_response
\* A result set is a sequence of rows; a row is a sequence of <<key, value>>
\* pairs in column order (RealDictRow).
Get(row, key) == row[CHOOSE i \in 1..Len(row) : row[i][1] = key][2]

RowLine(row) ==
    Join([i \in 1..Len(row) |-> <<row[i][1], ": ">> \o str(row[i][2])], <<", ">>)

\* format_response testing the number of rows instead of the number of columns
format_response_counts_rows(data) ==
    IF data = <<>> THEN NoResultsFound
    ELSE LET keys == [i \in 1..Len(data[1]) |-> data[1][i][1]] IN
         IF Len(data) = 1
         THEN LET key == keys[1]
                  values == [r \in 1..Len(data) |-> str(Get(data[r], key))]
              IN <<"The ", key, "s are: ">> \o Join(values, <<", ">>) \o <<".">>
         ELSE LET table == Join([r \in 1..Len(data) |-> RowLine(data[r])], <<"\n">>)
              IN <<"Here is the requested data:", "\n">> \o table

format_response(data) ==
    IF data = <<>> THEN NoResultsFound
    ELSE LET keys == [i \in 1..Len(data[1]) |-> data[1][i][1]] IN
         IF Len(keys) = 1
         THEN LET key == keys[1]
                  values == [r \in 1..Len(data) |-> str(Get(data[r], key))]
              IN <<"The ", key, "s are: ">> \o Join(values, <<", ">>) \o <<".">>
         ELSE LET table == Join([r \in 1..Len(data) |-> RowLine(data[r])], <<"\n">>)
              IN <<"Here is the requested data:", "\n">> \o table

\* ------------------------------------------------------------ the state
VARIABLES
    policies,      \* the policy mapping loaded at import, in iteration order
    pc,            \* position of the request: idle, a stage, __end__ or done
    args,          \* arguments of the chatbot call in progress
    state,         \* the ChatState threaded through the stages
    visited,       \* the stages run so far, in order
    prompts,       \* the oracle calls made so far: stage, prompt and reply
    oracleOutcome, \* per stage, how its oracle call ended
    dbCalls,       \* the database calls made so far
    dbOutcome,     \* how the database answered the executed statement
    result         \* what chatbot gave back to its caller

vars == <<policies, pc, args, state, visited, prompts, oracleOutcome,
          dbCalls, dbOutcome, result>>

Stages == {"classify_intent", "generate_sql_query", "execute_sql",
           "get_policy", "generate_response"}

\* class ChatState
ChatState(messages, user_email) ==
    [messages |-> messages, user_email |-> user_email,
     intent |-> General, response |-> <<>>,
     name |-> PyNone, requested_field |-> PyNone, userData |-> PyNone]

\* the first message taken instead of the latest
LatestMessage_first(st) ==
    IF st.messages # <<>> THEN st.messages[1] ELSE <<>>

\* state.messages[-1].content if state.messages else ""
LatestMessage(st) ==
    IF st.messages # <<>> THEN st.messages[Len(st.messages)] ELSE <<>>

NoResult == [kind |-> "none", response |-> <<>>]
Return(text) == [kind |-> "return", response |-> text]
NoArgs == [message |-> PyNone, user_email |-> PyNone, called |-> FALSE]

\* ------------------------------------------------------------ the inputs
MsgAlphabet == {"LEAVE", "Everyone"}

RECURSIVE TextsUpTo(_, _)
TextsUpTo(alphabet, n) ==
    IF n = 0 THEN {<<>>}
    ELSE LET shorter == TextsUpTo(alphabet, n - 1) IN
         shorter \cup {Append(t, c) : t \in shorter, c \in alphabet}

MsgTexts == TextsUpTo(MsgAlphabet, MaxMsgLen) \ {<<>>}

MessageArgs == {PyNone, PyStr(<<>>), PyInt(<<"4", "2">>)} \cup {PyStr(m) : m \in MsgTexts}
EmailArgs == {PyNone, PyStr(<<>>), PyStr(<<"asha", "@", "corp.example">>),
              PyStr(<<"not-an-email">>), PyInt(<<"1", "2", "3">>)}

\* The reply of an oracle call: the call raised (unreachable, timeout, a body
\* that is not JSON, not an object, or whose "response" is not text), the
\* JSON object has no "response" field, or it carries a text.
OracleError == [kind |-> "error", text |-> <<>>]
OracleNoKey == [kind |-> "nokey", text |-> <<>>]
OracleText(t) == [kind |-> "text", text |-> t]

ClassifierTexts ==
    {<<"user_details">>, <<"leave_balance">>, <<"attendance">>, <<"paid_leave">>,
     <<"hr_policy">>, <<"general">>,
     <<"'", "hr_policy", "'">>, <<" ", "user_details", "\n">>,
     <<"\"", " ", "hr_policy", "\"">>, <<"HR_Policy">>,
     <<"hr", " ", "policy">>, <<"greeting">>, <<>>}

ClassifierOutcomes == {OracleError, OracleNoKey} \cup {OracleText(t) : t \in ClassifierTexts}

\* The code-fence markers (three backquotes, with and without "sql").
FenceSql == "<fence>sql"
Fence == "<fence>"

SqlTexts ==
    {<<FenceSql, "\n", "SELECT name FROM employees", "\n", Fence>>,
     <<" ", "SELECT * FROM leaves", " ">>,
     <<Fence, Fence>>}

SqlOutcomes == {OracleError, OracleNoKey} \cup {OracleText(t) : t \in SqlTexts}

\* ---------------------------------------------------------- the database
\* get_database_schema: the catalog rows, or [] when the call fails.
SchemaQuery == <<"SELECT c.relname AS table_name, a.attname AS column_name, t.typname AS data_type FROM pg_catalog ...">>

SchemaRows ==
    <<[table_name |-> "employees", column_name |-> "email_address", data_type |-> "text"],
      [table_name |-> "employees", column_name |-> "name", data_type |-> "text"]>>

SchemaOutcomes == {[kind |-> "error", rows |-> <<>>],
                   [kind |-> "rows", rows |-> <<>>],
                   [kind |-> "rows", rows |-> SchemaRows]}

get_database_schema(outcome) ==
    IF outcome.kind = "error" THEN <<>> ELSE outcome.rows

\* The result sets of the database: up to MaxRows rows over the first
\* 1..MaxCols columns, each cell drawn from the column's values.
Columns == <<"name", "age", "dept", "id", "city">>

CellValues(col) ==
    CASE col = "name" -> {PyStr(<<"Alice">>), PyStr(<<"Bob">>)}
      [] col = "age" -> {PyInt(<<"3", "0">>)}
      [] OTHER -> {PyNone}

RowsOver(k) ==
    {[i \in 1..k |-> <<Columns[i], f[i]>>] :
        f \in {g \in [1..k -> UNION {CellValues(Columns[i]) : i \in 1..k}] :
                 \A i \in 1..k : g[i] \in CellValues(Columns[i])}}

ResultSets ==
    UNION {UNION {[1..n -> RowsOver(k)] : n \in 0..MaxRows} : k \in 1..MaxCols}

\* What the database answers to an executed statement: the statements the
\* SQL oracle wrote may succeed; any other text is rejected by the engine.
IsSql(sql) == sql \in {<<"SELECT name FROM employees">>, <<"SELECT * FROM leaves">>}

DbOutcomes(sql) ==
    {[kind |-> "error", text |-> <<"could not connect to server">>, rows |-> <<>>],
     [kind |-> "error", text |-> <<"syntax error at or near: ">> \o sql, rows |-> <<>>]}
    \cup (IF IsSql(sql)
          THEN {[kind |-> "rows", text |-> <<>>, rows |-> r] : r \in ResultSets}
          ELSE {})

\* ------------------------------------------------------------ the stages
ClassifyPrompt(message) ==
    <<"Classify this message into one of these categories: user_details, leave_balance, attendance, paid_leave, hr_policy, general. Only return the category name without extra text. Message: '">>
    \o message \o <<"'">>

\* classify_intent whose except clause labels the failure instead of
\* falling back to general
classify_intent_error_label(st, o) ==
    LET message == LatestMessage(st) IN
    IF message = <<>> THEN [st EXCEPT !.intent = General]
    ELSE IF o.kind = "error" THEN [st EXCEPT !.intent = <<"error">>]
    ELSE LET reply == IF o.kind = "nokey" THEN General ELSE o.text
             intent == RemoveAll(strip(reply), {"'", "\""})
         IN [st EXCEPT !.intent = intent]

\* classify_intent, given the outcome of its oracle call
classify_intent(st, o) ==
    LET message == LatestMessage(st) IN
    IF message = <<>> THEN [st EXCEPT !.intent = General]
    ELSE IF o.kind = "error" THEN [st EXCEPT !.intent = General]
    ELSE LET reply == IF o.kind = "nokey" THEN General ELSE o.text
             intent == RemoveAll(strip(reply), {"'", "\""})
         IN [st EXCEPT !.intent = intent]

\* intent_router with paid_leave missing from the list of SQL intents
intent_router_no_paid_leave(st) ==
    IF st.intent \in {<<"user_details">>, <<"leave_balance">>, <<"attendance">>}
    THEN "generate_sql_query"
    ELSE IF st.intent = <<"hr_policy">> THEN "get_policy"
    ELSE "generate_response"

\* intent_router with hr_policy listed among the SQL intents
intent_router_hr_in_sql_list(st) ==
    IF st.intent \in {<<"user_details">>, <<"leave_balance">>,
                      <<"attendance">>, <<"paid_leave">>, <<"hr_policy">>}
    THEN "generate_sql_query"
    ELSE IF st.intent = <<"hr_policy">> THEN "get_policy"
    ELSE "generate_response"

\* intent_router comparing the labels without regard to case and spacing
intent_router_case_insensitive(st) ==
    IF lower(strip(st.intent)) \in {<<"user_details">>, <<"leave_balance">>,
                                    <<"attendance">>, <<"paid_leave">>}
    THEN "generate_sql_query"
    ELSE IF lower(strip(st.intent)) = <<"hr_policy">> THEN "get_policy"
    ELSE "generate_response"

intent_router(st) ==
    IF st.intent \in {<<"user_details">>, <<"leave_balance">>,
                      <<"attendance">>, <<"paid_leave">>}
    THEN "generate_sql_query"
    ELSE IF st.intent = <<"hr_policy">> THEN "get_policy"
    ELSE "generate_response"

all_employees_keywords ==
    {<<"all", " ", "employees">>, <<"list", " ", "of", " ", "employees">>, <<"everyone">>}

SqlPrompt(st, schema_info) ==
    LET message == LatestMessage(st)
        schema_str == Join([i \in 1..Len(schema_info) |->
                              <<"Table: ", schema_info[i].table_name,
                                ", Column: ", schema_info[i].column_name,
                                " (", schema_info[i].data_type, ")">>], <<"\n">>)
        is_fetching_all_employees ==
            \E keyword \in all_employees_keywords : Contains(keyword, lower(message))
        filtering_instruction ==
            IF is_fetching_all_employees
            THEN <<"- Do NOT filter by email_address. Retrieve all records.">>
            ELSE <<"- Ensure the WHERE clause includes email_address = '">>
                 \o st.user_email \o <<"'">>
    IN <<"You are an SQL expert. ... Schema Information: ">> \o schema_str
       \o <<"User Request: ">> \o message \o filtering_instruction
       \o <<"- ONLY use column names that exist in the schema above. ... Only output the raw SQL.">>

\* generate_sql_query that leaves the code fences in the statement
generate_sql_query_keeps_fences(st, schema_info, o) ==
    IF schema_info = <<>> THEN [st EXCEPT !.response = SchemaUnavailable]
    ELSE IF o.kind = "error" THEN [st EXCEPT !.response = SqlGenerationFailed]
    ELSE LET reply == IF o.kind = "nokey" THEN <<>> ELSE o.text
             sql_query == strip(reply)
         IN [st EXCEPT !.response = sql_query]

\* generate_sql_query, given the schema and the outcome of its oracle call
generate_sql_query(st, schema_info, o) ==
    IF schema_info = <<>> THEN [st EXCEPT !.response = SchemaUnavailable]
    ELSE IF o.kind = "error" THEN [st EXCEPT !.response = SqlGenerationFailed]
    ELSE LET reply == IF o.kind = "nokey" THEN <<>> ELSE o.text
             sql_query == strip(RemoveAll(strip(reply), {FenceSql, Fence}))
         IN [st EXCEPT !.response = sql_query]

\* execute_sql whose except clause reports the driver's error
execute_sql_reports_error(st, d) ==
    IF st.response = <<>> THEN [st EXCEPT !.response = NoSqlQuery]
    ELSE IF d.kind = "error"
         THEN [st EXCEPT !.response = <<"Database query failed: ">> \o d.text]
    ELSE [st EXCEPT !.response = format_response(d.rows)]

\* execute_sql, given the outcome of its database call
execute_sql(st, d) ==
    IF st.response = <<>> THEN [st EXCEPT !.response = NoSqlQuery]
    ELSE IF d.kind = "error" THEN [st EXCEPT !.response = DatabaseQueryFailed]
    ELSE [st EXCEPT !.response = format_response(d.rows)]

\* the loop of get_policy comparing the key as written
RECURSIVE PolicyScan_key_as_written(_, _)
PolicyScan_key_as_written(items, message) ==
    IF items = <<>> THEN PolicyNotFound
    ELSE IF Contains(items[1][1], lower(message)) THEN items[1][2]
    ELSE PolicyScan_key_as_written(Tail(items), message)

\* the loop of get_policy over policies.items()
RECURSIVE PolicyScan(_, _)
PolicyScan(items, message) ==
    IF items = <<>> THEN PolicyNotFound
    ELSE IF Contains(lower(items[1][1]), lower(message)) THEN items[1][2]
    ELSE PolicyScan(Tail(items), message)

get_policy(st) == [st EXCEPT !.response = PolicyScan(policies, LatestMessage(st))]

ResponsePrompt(st) ==
    LET message == LatestMessage(st) IN
    IF st.intent # General
    THEN <<"Respond as an HR assistant.", "\n", "User: ">> \o message
         \o <<" answer: ">> \o st.response
    ELSE <<"Respond as an HR assistant.", "\n", "User: ">> \o message

\* generate_response that also records the name it addressed
generate_response_sets_name(st, o) ==
    LET user_name == IF Truthy(st.name) THEN st.name.v ELSE <<"User">> IN
    IF o.kind = "error" THEN [st EXCEPT !.response = Apology]
    ELSE LET reply == IF o.kind = "nokey" THEN <<>> ELSE o.text
             ai_response == Replace(strip(reply), "[Your Name]", user_name)
         IN [st EXCEPT !.response = ai_response, !.name = PyStr(user_name)]

\* generate_response, given the outcome of its oracle call
generate_response(st, o) ==
    LET user_name == IF Truthy(st.name) THEN st.name.v ELSE <<"User">> IN
    IF o.kind = "error" THEN [st EXCEPT !.response = Apology]
    ELSE LET reply == IF o.kind = "nokey" THEN <<>> ELSE o.text
             ai_response == Replace(strip(reply), "[Your Name]", user_name)
         IN [st EXCEPT !.response = ai_response]

\* The generator's oracle answers with a text of its own or repeats what
\* its prompt told it.
ResponseOutcomes(prompt) ==
    {OracleError, OracleNoKey,
     OracleText(<<" ", "Dear ", "[Your Name]", ", here is your answer.", "\n">>),
     OracleText(prompt)}

\* ---------------------------------------------------- the policy mapping
PolicyKeys == {<<"Leave">>, <<"everyone">>}

PolicyText(key) == <<" ", "Policy text for ">> \o key \o <<".", "\n">>

\* policies.json: an ordered mapping with distinct keys; {} when the file
\* is missing or unreadable.
PolicyMappings ==
    {[i \in 1..Len(ks) |-> <<ks[i], PolicyText(ks[i])>>] :
        ks \in {k \in UNION {[1..n -> PolicyKeys] : n \in 0..MaxPolicies} :
                  \A i, j \in 1..Len(k) : i # j => k[i] # k[j]}}

\* ----------------------------------------------------------- the actions
NoOutcomes == [s \in Stages |-> "none"]
NoDbOutcome == [kind |-> "none", text |-> <<>>, rows |-> <<>>]

Init ==
    /\ policies \in PolicyMappings
    /\ pc = "idle"
    /\ args = NoArgs
    /\ state = ChatState(<<>>, <<>>)
    /\ visited = <<>>
    /\ prompts = <<>>
    /\ oracleOutcome = NoOutcomes
    /\ dbCalls = <<>>
    /\ dbOutcome = NoDbOutcome
    /\ result = NoResult

\* chatbot(message, user_email) up to workflow.invoke.  ChatState validates
\* user_email as a str: a value of another type is either coerced to text
\* or rejected with a ValidationError, depending on the pydantic in use; the
\* error is caught by the except clause of chatbot.
chatbot(message, user_email) ==
    /\ pc = "idle"
    /\ args' = [message |-> message, user_email |-> user_email, called |-> TRUE]
    /\ IF ~Truthy(message) \/ message.t # "str" \/ ~Truthy(user_email)
       THEN /\ result' = Return(InvalidInput)
            /\ pc' = "done"
            /\ UNCHANGED state
       ELSE \/ /\ state' = ChatState(<<message.v>>, str(user_email))
               /\ pc' = "classify_intent"
               /\ UNCHANGED result
            \/ /\ user_email.t # "str"
               /\ result' = Return(InternalError)
               /\ pc' = "done"
               /\ UNCHANGED state
    /\ UNCHANGED <<policies, visited, prompts, oracleOutcome, dbCalls, dbOutcome>>

ChatbotCall == \E message \in MessageArgs, user_email \in EmailArgs :
                   chatbot(message, user_email)

\* the node classify_intent and the conditional edge that leaves it
ClassifyIntent ==
    /\ pc = "classify_intent"
    /\ visited' = Append(visited, "classify_intent")
    /\ IF LatestMessage(state) = <<>>
       THEN /\ state' = classify_intent(state, OracleNoKey)
            /\ UNCHANGED <<prompts, oracleOutcome>>
       ELSE \E o \in ClassifierOutcomes :
            /\ prompts' = Append(prompts, [stage |-> "classify_intent",
                                           prompt |-> ClassifyPrompt(LatestMessage(state)),
                                      reply |-> o])
            /\ oracleOutcome' = [oracleOutcome EXCEPT !["classify_intent"] = o.kind]
            /\ state' = classify_intent(state, o)
    /\ pc' = intent_router(state')
    /\ UNCHANGED <<policies, args, dbCalls, dbOutcome, result>>

\* the node generate_sql_query and its edge to execute_sql
GenerateSqlQuery ==
    /\ pc = "generate_sql_query"
    /\ visited' = Append(visited, "generate_sql_query")
    /\ \E sch \in SchemaOutcomes :
       LET schema_info == get_database_schema(sch) IN
       /\ dbCalls' = Append(dbCalls, [op |-> "schema", sql |-> SchemaQuery])
       /\ IF schema_info = <<>>
          THEN /\ state' = generate_sql_query(state, schema_info, OracleNoKey)
               /\ UNCHANGED <<prompts, oracleOutcome>>
          ELSE \E o \in SqlOutcomes :
               /\ prompts' = Append(prompts, [stage |-> "generate_sql_query",
                                              prompt |-> SqlPrompt(state, schema_info),
                                      reply |-> o])
               /\ oracleOutcome' = [oracleOutcome EXCEPT !["generate_sql_query"] = o.kind]
               /\ state' = generate_sql_query(state, schema_info, o)
    /\ pc' = "execute_sql"
    /\ UNCHANGED <<policies, args, dbOutcome, result>>

\* the node execute_sql and its edge to generate_response
ExecuteSql ==
    /\ pc = "execute_sql"
    /\ visited' = Append(visited, "execute_sql")
    /\ IF state.response = <<>>
       THEN /\ state' = execute_sql(state, [kind |-> "rows", text |-> <<>>, rows |-> <<>>])
            /\ UNCHANGED <<dbCalls, dbOutcome>>
       ELSE \E d \in DbOutcomes(state.response) :
            /\ dbCalls' = Append(dbCalls, [op |-> "execute", sql |-> state.response])
            /\ dbOutcome' = d
            /\ state' = execute_sql(state, d)
    /\ pc' = "generate_response"
    /\ UNCHANGED <<policies, args, prompts, oracleOutcome, result>>

\* the node get_policy and its edge to generate_response
GetPolicy ==
    /\ pc = "get_policy"
    /\ visited' = Append(visited, "get_policy")
    /\ state' = get_policy(state)
    /\ pc' = "generate_response"
    /\ UNCHANGED <<policies, args, prompts, oracleOutcome, dbCalls, dbOutcome, result>>

\* the node generate_response, after which the graph ends
GenerateResponse ==
    /\ pc = "generate_response"
    /\ visited' = Append(visited, "generate_response")
    /\ \E o \in ResponseOutcomes(ResponsePrompt(state)) :
       /\ prompts' = Append(prompts, [stage |-> "generate_response",
                                      prompt |-> ResponsePrompt(state),
                                      reply |-> o])
       /\ oracleOutcome' = [oracleOutcome EXCEPT !["generate_response"] = o.kind]
       /\ state' = generate_response(state, o)
    /\ pc' = "__end__"
    /\ UNCHANGED <<policies, args, dbCalls, dbOutcome, result>>

\* chatbot after workflow.invoke: the response field of the final state
ChatbotReturn ==
    /\ pc = "__end__"
    /\ args.called
    /\ result' = Return(state.response)
    /\ pc' = "done"
    /\ UNCHANGED <<policies, args, state, visited, prompts, oracleOutcome,
                   dbCalls, dbOutcome>>

Next ==
    \/ ChatbotCall
    \/ ClassifyIntent
    \/ GenerateSqlQuery
    \/ ExecuteSql
    \/ GetPolicy
    \/ GenerateResponse
    \/ ChatbotReturn

Spec == Init /\ [][Next]_vars

\* --------------------------------------- classify_intent on its own
\* classify_intent applied to any ChatState, as the graph or a test calls it.
MessageLists ==
    {<<>>} \cup {<<m>> : m \in MsgTexts \cup {<<>>}}
           \cup {<<m, <<>>>> : m \in MsgTexts}
           \cup {<<<<>>, m>> : m \in MsgTexts}

InitClassify ==
    /\ policies \in PolicyMappings
    /\ pc = "classify_intent"
    /\ args = NoArgs
    /\ \E messages \in MessageLists,
          intent \in {General, <<"attendance">>},
          response \in {<<>>, <<"an earlier answer">>},
          name \in {PyNone, PyStr(<<"Asha">>)} :
          state = [ChatState(messages, <<"asha", "@", "corp.example">>)
                      EXCEPT !.intent = intent, !.response = response, !.name = name]
    /\ visited = <<>>
    /\ prompts = <<>>
    /\ oracleOutcome = NoOutcomes
    /\ dbCalls = <<>>
    /\ dbOutcome = NoDbOutcome
    /\ result = NoResult

NextClassify == ClassifyIntent

SpecClassify == InitClassify /\ [][NextClassify]_vars

\* ------------------------------------------------------------ properties
SqlIntents == {<<"user_details">>, <<"leave_balance">>, <<"attendance">>, <<"paid_leave">>}
HrPolicy == <<"hr_policy">>

SqlPath == <<"classify_intent", "generate_sql_query", "execute_sql", "generate_response">>
PolicyPath == <<"classify_intent", "get_policy", "generate_response">>
DirectPath == <<"classify_intent", "generate_response">>

Visited(stage) == \E i \in 1..Len(visited) : visited[i] = stage

\* The run has gone along path so far: the stages visited are its first
\* stages, the next stage is the one the run is at, and the run is over
\* once the whole path is visited.
RunFollows(path) ==
    /\ Len(visited) <= Len(path)
    /\ visited = SubSeq(path, 1, Len(visited))
    /\ IF Len(visited) < Len(path)
       THEN pc = path[Len(visited) + 1]
       ELSE pc \in {"__end__", "done"}

Classified == Len(visited) >= 1

\* C1: a run whose classified intent is user_details, leave_balance,
\* attendance or paid_leave visits classify_intent, generate_sql_query,
\* execute_sql, generate_response, in that order, each once, and then ends;
\* generate_sql_query is entered only with one of these four intents.
C1_SqlRoute ==
    /\ (Classified /\ state.intent \in SqlIntents) => RunFollows(SqlPath)
    /\ (pc = "generate_sql_query" \/ Visited("generate_sql_query"))
          => state.intent \in SqlIntents

C1_Witness ==
    /\ pc = "done"
    /\ state.intent = <<"paid_leave">>
    /\ visited = SqlPath
    /\ result.kind = "return"

\* C2: a run whose classified intent is exactly hr_policy visits
\* classify_intent, get_policy, generate_response, in that order, each once;
\* it never visits generate_sql_query or execute_sql and makes no database
\* call; get_policy is entered only with intent hr_policy.
C2_PolicyRoute ==
    /\ (Classified /\ state.intent = HrPolicy)
          => /\ RunFollows(PolicyPath)
             /\ ~Visited("generate_sql_query")
             /\ ~Visited("execute_sql")
             /\ dbCalls = <<>>
    /\ (pc = "get_policy" \/ Visited("get_policy")) => state.intent = HrPolicy

C2_Witness ==
    /\ pc = "done"
    /\ state.intent = HrPolicy
    /\ visited = PolicyPath
    /\ dbCalls = <<>>

\* C3: a run whose classified intent is general or any text other than the
\* five routed labels (case and spacing variants included) goes from
\* classify_intent straight to generate_response, never visits
\* generate_sql_query, execute_sql or get_policy, makes no database call,
\* and ends by returning the generated response.
C3_DirectRoute ==
    (Classified /\ state.intent \notin SqlIntents \cup {HrPolicy})
       => /\ RunFollows(DirectPath)
          /\ ~Visited("generate_sql_query")
          /\ ~Visited("execute_sql")
          /\ ~Visited("get_policy")
          /\ dbCalls = <<>>
          /\ pc = "done" => result = Return(state.response)

C3_Witness ==
    /\ pc = "done"
    /\ state.intent \in {<<"HR_Policy">>, <<" ", "hr_policy">>}
    /\ visited = DirectPath
    /\ result = Return(state.response)

\* An e-mail address has an @ in it.
ValidEmail(x) == x.t = "str" /\ Contains(<<"@">>, x.v)

\* C4: a call of chatbot whose message is missing, empty or not a string,
\* or whose user_email is missing, empty or invalid, returns the fixed
\* invalid-input response, raises nothing, and runs no stage, oracle call
\* or database call.
C4_InvalidInputRejected ==
    (args.called /\ (\/ ~Truthy(args.message)
                     \/ args.message.t # "str"
                     \/ ~Truthy(args.user_email)
                     \/ ~ValidEmail(args.user_email)))
       => /\ pc = "done"
          /\ result = Return(InvalidInput)
          /\ visited = <<>>
          /\ prompts = <<>>
          /\ dbCalls = <<>>

\* C5: when the oracle call of classify_intent fails, intent is general, the
\* run goes straight to generate_response and ends, and chatbot returns a
\* response record without raising; when the oracle call of
\* generate_response fails too, the response is the fixed apology.
C5_ClassifierFailureRecovered ==
    oracleOutcome["classify_intent"] = "error"
       => /\ state.intent = General
          /\ RunFollows(DirectPath)
          /\ pc = "done"
                => /\ result = Return(state.response)
                   /\ oracleOutcome["generate_response"] = "error"
                         => result.response = Apology

C5_Witness ==
    /\ pc = "done"
    /\ oracleOutcome["classify_intent"] = "error"
    /\ oracleOutcome["generate_response"] = "error"
    /\ visited = DirectPath
    /\ result = Return(Apology)

\* The text of a failed execute: the statement sent and the driver's error.
ExecutedSql == dbCalls[Len(dbCalls)].sql

Leaks(text) ==
    \/ Contains(dbOutcome.text, text)
    \/ Contains(ExecutedSql, text)

StateLeaks ==
    \/ Leaks(state.response)
    \/ Leaks(state.intent)
    \/ Leaks(state.user_email)
    \/ \E i \in 1..Len(state.messages) : Leaks(state.messages[i])

\* C6: when the database call of execute_sql fails, the stage sets response
\* to exactly "Database query failed.", nothing is raised, the run goes on
\* to generate_response, and neither the driver's error text nor the
\* executed statement is in the state handed on or in the value returned.
C6_DatabaseFailureGeneric ==
    dbOutcome.kind = "error"
       => /\ RunFollows(SqlPath)
          /\ Visited("execute_sql")
          /\ pc = "generate_response" => state.response = DatabaseQueryFailed
          /\ ~StateLeaks
          /\ pc = "done" => (result.kind = "return" /\ ~Leaks(result.response))

C6_Witness ==
    /\ pc = "done"
    /\ dbOutcome.kind = "error"
    /\ ExecutedSql = <<"SELECT name FROM employees">>
    /\ visited = SqlPath
    /\ Contains(DatabaseQueryFailed, result.response)

\* The prompt that generate_response sent to the oracle.
SentResponsePrompt == prompts[Len(prompts)].prompt

MessageOnlyPrompt ==
    <<"Respond as an HR assistant.", "\n", "User: ">> \o LatestMessage(state)

\* C7: the prompt of generate_response embeds an earlier answer exactly in
\* the runs that went through the SQL branch or the policy branch; in a run
\* routed from classify_intent straight to generate_response (general or an
\* unrecognized label) the prompt embeds only the message.
C7_AnswerEmbeddedIffBranched ==
    Visited("generate_response")
       => IF Visited("execute_sql") \/ Visited("get_policy")
          THEN /\ SentResponsePrompt # MessageOnlyPrompt
               /\ Contains(<<" answer: ">>, SentResponsePrompt)
          ELSE SentResponsePrompt = MessageOnlyPrompt

\* C8: classify_intent applied to a state whose message list is empty or
\* whose latest message is the empty string returns intent general and
\* makes no oracle call.
C8_EmptyMessageIsGeneral ==
    (/\ visited = <<"classify_intent">>
     /\ \/ state.messages = <<>>
        \/ state.messages[Len(state.messages)] = <<>>)
       => /\ state.intent = General
          /\ prompts = <<>>
          /\ oracleOutcome["classify_intent"] = "none"

C8_Witness ==
    /\ visited = <<"classify_intent">>
    /\ state.messages = <<>>
    /\ state.intent = General
    /\ prompts = <<>>

\* The positions of the policy keys whose lower-cased form occurs in the
\* lower-cased message.
MatchingKeys(message) ==
    {i \in 1..Len(policies) : Contains(lower(policies[i][1]), lower(message))}

JustRan(stage) == visited # <<>> /\ visited[Len(visited)] = stage

\* C9: get_policy sets response to the text of the first key, in the
\* mapping's order, whose lower-cased form occurs in the lower-cased latest
\* message, the stored text unchanged, and to "Policy not found." when no
\* key matches or the mapping is empty.
C9_FirstMatchingPolicy ==
    JustRan("get_policy")
       => LET matching == MatchingKeys(state.messages[Len(state.messages)]) IN
          IF matching = {}
          THEN state.response = PolicyNotFound
          ELSE LET first == CHOOSE i \in matching : \A j \in matching : i <= j
               IN /\ state.response = policies[first][2]
                  /\ state.response = PolicyText(policies[first][1])

C9_Witness ==
    /\ JustRan("get_policy")
    /\ Cardinality(MatchingKeys(LatestMessage(state))) = 2
    /\ state.response = policies[1][2]
    /\ policies[1][1] = <<"Leave">>

\* The sentence for a result set of one column, built from its last value
\* backwards.
RECURSIVE ValueList(_, _)
ValueList(rows, n) ==
    IF n = 1 THEN str(rows[1][1][2])
    ELSE ValueList(rows, n - 1) \o <<", ">> \o str(rows[n][1][2])

\* The "key: value" pairs of a row from column i on.
RECURSIVE Pairs(_, _)
Pairs(row, i) ==
    IF i > Len(row) THEN <<>>
    ELSE (IF i > 1 THEN <<", ">> ELSE <<>>)
         \o <<row[i][1], ": ">> \o str(row[i][2]) \o Pairs(row, i + 1)

\* One line per row, from row r on.
RECURSIVE Lines(_, _)
Lines(rows, r) ==
    IF r > Len(rows) THEN <<>>
    ELSE <<"\n">> \o Pairs(rows[r], 1) \o Lines(rows, r + 1)

\* C10: format_response gives "No results found." for an empty result set;
\* for rows of one column k the sentence "The ks are: v1, v2, ... ." with
\* the value of every row in row order; for rows of several columns the
\* header "Here is the requested data:" and one line per row in row order,
\* the row's "key: value" pairs joined by ", " in column order.
C10_ResultFormatting ==
    (JustRan("execute_sql") /\ dbOutcome.kind = "rows")
       => LET rows == dbOutcome.rows IN
          IF rows = <<>> THEN state.response = NoResultsFound
          ELSE IF Len(rows[1]) = 1
          THEN state.response =
                  <<"The ", rows[1][1][1], "s are: ">> \o ValueList(rows, Len(rows)) \o <<".">>
          ELSE state.response = <<"Here is the requested data:">> \o Lines(rows, 1)

C10_Witness ==
    /\ JustRan("execute_sql")
    /\ state.response = <<"The ", "name", "s are: ", "Alice", ", ", "Bob", ".">>

\* The fields no stage owns have the values the state was constructed with.
InputFieldsKept ==
    (args.called /\ (pc \in Stages \cup {"__end__"} \/ visited # <<>>))
       => /\ state.messages = <<args.message.v>>
          /\ state.user_email = str(args.user_email)
          /\ state.name = PyNone
          /\ state.requested_field = PyNone
          /\ state.userData = PyNone

\* A step of a stage changes no field but the one the stage owns.
StageKeepsOtherFields ==
    /\ pc = "classify_intent" => [state' EXCEPT !.intent = state.intent] = state
    /\ pc \in Stages \ {"classify_intent"}
          => [state' EXCEPT !.response = state.response] = state
    /\ pc \notin Stages \cup {"idle"} => state' = state

\* C11: every stage returns a state that differs from its input only in the
\* field it owns: classify_intent changes only intent; generate_sql_query,
\* execute_sql, get_policy and generate_response change only response;
\* messages, user_email, name, requested_field and userData keep the values
\* of the initial state throughout, and intent never changes after
\* classify_intent.
C11_StagesChangeOwnFields ==
    /\ []InputFieldsKept
    /\ [][StageKeepsOtherFields]_vars

C11_Witness ==
    /\ pc = "done"
    /\ visited = SqlPath
    /\ state.messages = <<args.message.v>>
    /\ state.user_email = str(args.user_email)
    /\ state.intent = <<"attendance">>
    /\ state.response # <<>>

\* The statements execute_sql has sent to the database in this run.
ExecutedStatements ==
    LET executes == SelectSeq(dbCalls, LAMBDA c : c.op = "execute")
    IN [i \in 1..Len(executes) |-> executes[i].sql]

\* The text the oracle returned to generate_sql_query in this run, without
\* code fences and surrounding space; empty when the reply carried no text.
SqlOracleCalls == SelectSeq(prompts, LAMBDA c : c.stage = "generate_sql_query")

OracleSql ==
    IF SqlOracleCalls = <<>> \/ SqlOracleCalls[1].reply.kind # "text" THEN <<>>
    ELSE LET text == SqlOracleCalls[1].reply.text
             first == CHOOSE i \in 1..(Len(text) + 1) :
                         /\ \A j \in 1..(i - 1) : IsSpace(text[j]) \/ text[j] \in {FenceSql, Fence}
                         /\ i <= Len(text) => ~(IsSpace(text[i]) \/ text[i] \in {FenceSql, Fence})
             last == CHOOSE i \in 0..Len(text) :
                         /\ \A j \in (i + 1)..Len(text) : IsSpace(text[j]) \/ text[j] \in {FenceSql, Fence}
                         /\ i >= 1 => ~(IsSpace(text[i]) \/ text[i] \in {FenceSql, Fence})
         IN SelectSeq(SubSeq(text, first, last), LAMBDA c : c \notin {FenceSql, Fence})

FallbackStrings == {SchemaUnavailable, SqlGenerationFailed}

\* C12 as stated: every statement execute_sql sends to the database is text
\* the oracle returned to generate_sql_query in the same run, code fences
\* stripped, and a fallback string of generate_sql_query ("Database schema
\* unavailable.", "Failed to generate SQL query.") is never sent.
C12_OnlyOracleSqlExecuted ==
    \A i \in 1..Len(ExecutedStatements) :
        /\ ExecutedStatements[i] \notin FallbackStrings
        /\ ExecutedStatements[i] = OracleSql

\* C12 as amended: execute_sql sends the response field generate_sql_query
\* left, whenever it is not empty: the oracle's text with the code fences
\* stripped, or, when generate_sql_query ended with a fallback string, that
\* fallback string; only an empty response is not sent.
C12_NonEmptyResponseExecuted ==
    Visited("execute_sql")
       => IF SqlOracleCalls = <<>>
          THEN ExecutedStatements = <<SchemaUnavailable>>
          ELSE IF SqlOracleCalls[1].reply.kind = "error"
          THEN ExecutedStatements = <<SqlGenerationFailed>>
          ELSE IF OracleSql = <<>>
          THEN ExecutedStatements = <<>>
          ELSE ExecutedStatements = <<OracleSql>>

C12_Witness ==
    /\ JustRan("execute_sql")
    /\ oracleOutcome["generate_sql_query"] = "error"
    /\ ExecutedStatements = <<SqlGenerationFailed>>
    /\ state.response = DatabaseQueryFailed
====
